---- MODULE Spec2Model ----
(***************************************************************************)
(* StorageVec (srml/support/src/storage/storage_vec_hashed.rs): a vector   *)
(* of items kept in a hashed key-value store under one PREFIX.  The store  *)
(* is a partial function from keys to encoded bytes; a key that is not in  *)
(* its domain is physically absent.                                        *)
(***************************************************************************)
EXTENDS Integers, Sequences, FiniteSets, TLC

\* ------------------------------------------------------------------ bounds
\* Largest value of the length counter (u32::MAX, scaled down).
U32_MAX == 2
\* Largest item value; items are small unsigned integers.
MaxItem == 1

ItemValues == 0..MaxItem
U32 == 0..U32_MAX
\* <Self::Item as Default>::default()
Default == 0
\* const PREFIX: &'static [u8]
PREFIX == <<112>>

BoundedSeq(S, n) == UNION {[1..k -> S] : k \in 0..n}
\* Inputs of set_items: every sequence the counter can count, and sequences
\* one element longer, on which the running counter overflows.
FittingSeqs == BoundedSeq(ItemValues, U32_MAX)
OverlongSeqs == {[k \in 1..(U32_MAX + 1) |-> v] : v \in ItemValues}
ItemSeqs == FittingSeqs \cup OverlongSeqs

\* ------------------------------------------------------------------ codec
\* u32 as Encode: four little-endian bytes.
u32_encode(n) ==
  <<n % 256, (n \div 256) % 256, (n \div 65536) % 256, (n \div 16777216) % 256>>
u32_decode(b) == b[1] + 256 * b[2] + 65536 * b[3] + 16777216 * b[4]
\* Self::Item as Codec: one byte.
item_encode(v) == <<v % 256>>
item_decode(b) == b[1]

\* A key derivation that keeps only the three low bytes of the index.
index_key_three_bytes(index) ==
  PREFIX \o SubSeq(u32_encode(index), 1, 3)
\* index.to_keyed_vec(Self::PREFIX)
index_key(index) == PREFIX \o u32_encode(index)
\* b"len".to_keyed_vec(Self::PREFIX)
len_key == PREFIX \o <<108, 101, 110>>

\* ------------------------------------------------------------ hashed store
\* hashed::put / kill / get_or_default hash the key with twox_128 and then
\* touch runtime storage.  The store is indexed here by the key handed to
\* the hasher, so two keys share an entry exactly when they are the same
\* byte string before hashing.
EmptyStore == [k \in {} |-> <<>>]
\* A put that leaves a key alone once it holds a value.
hashed_put_keeps_first(s, key, bytes) ==
  [k \in DOMAIN s \cup {key} |-> IF k \in DOMAIN s THEN s[k] ELSE bytes]
hashed_put(s, key, bytes) ==
  [k \in DOMAIN s \cup {key} |-> IF k = key THEN bytes ELSE s[k]]
\* hashed::get: <<>> is None, <<bytes>> is Some(bytes).
hashed_get(s, key) == IF key \in DOMAIN s THEN <<s[key]>> ELSE <<>>
hashed_kill(s, key) == [k \in DOMAIN s \ {key} |-> s[k]]
hashed_exists(s, key) == key \in DOMAIN s

\* ------------------------------------------------------------- arithmetic
\* A checked_add that wraps instead of returning None.
checked_add_wraps(a, b) == {(a + b) % (U32_MAX + 1)}
\* u32::checked_add: {} is None, {x} is Some(x).
checked_add(a, b) == IF a + b > U32_MAX THEN {} ELSE {a + b}
\* `a + b` on u32 without overflow checks.
wrapping_add(a, b) == (a + b) % (U32_MAX + 1)

\* -------------------------------------------------------------- StorageVec
\* fn count() -> u32
count(s) == IF hashed_exists(s, len_key) THEN u32_decode(s[len_key]) ELSE 0

\* An item that decodes an absent slot as a stored one instead of the default.
item_no_default(s, index) ==
  IF hashed_exists(s, index_key(index)) THEN item_decode(s[index_key(index)])
  ELSE MaxItem

\* fn item(index: u32) -> Self::Item
item(s, index) ==
  IF hashed_exists(s, index_key(index)) THEN item_decode(s[index_key(index)])
  ELSE Default

\* fn items() -> Vec<Self::Item>: (0..count()).map(item).collect()
RECURSIVE collect_items(_, _, _)
\* A collect over the inclusive range 0..=count().
RECURSIVE collect_items_inclusive(_, _, _)
collect_items_inclusive(s, i, hi) ==
  IF i > hi \/ i > U32_MAX THEN <<>>
  ELSE <<item(s, i)>> \o collect_items_inclusive(s, i + 1, hi)
collect_items(s, i, hi) ==
  IF i >= hi THEN <<>> ELSE <<item(s, i)>> \o collect_items(s, i + 1, hi)
items(s) == collect_items(s, 0, count(s))

\* A clear_item that also takes the cleared slot off the length.
clear_item_shrinks(s, index) ==
  IF index < count(s)
  THEN hashed_put(hashed_kill(s, index_key(index)), len_key,
                  u32_encode(count(s) - 1))
  ELSE s

\* fn clear_item(index: u32)
clear_item(s, index) ==
  IF index < count(s) THEN hashed_kill(s, index_key(index)) ELSE s

\* A set_item that writes the slot after the one asked for.
set_item_next_slot(s, index, v) ==
  IF index < count(s)
  THEN hashed_put(s, index_key(wrapping_add(index, 1)), item_encode(v))
  ELSE s

\* fn set_item(index: u32, item: &Self::Item)
set_item(s, index, v) ==
  IF index < count(s) THEN hashed_put(s, index_key(index), item_encode(v)) ELSE s

\* (count..Self::count()).for_each(Self::clear_item)
RECURSIVE clear_range(_, _, _)
clear_range(s, i, hi) ==
  IF i >= hi THEN s ELSE clear_range(clear_item(s, i), i + 1, hi)

\* A set_count that writes the length and clears nothing.
set_count_no_clear(s, n) == hashed_put(s, len_key, u32_encode(n))

\* A set_count whose clear pass starts at index 0.
set_count_clears_all(s, n) ==
  hashed_put(clear_range(s, 0, count(s)), len_key, u32_encode(n))

\* fn set_count(count: u32)
set_count(s, n) ==
  hashed_put(clear_range(s, n, count(s)), len_key, u32_encode(n))

\* A push that writes the item one slot past the end.
push_past_end(s, v, checks) ==
  LET len == count(s)
      s1  == hashed_put(s, index_key(wrapping_add(len, 1)), item_encode(v))
  IN  IF len + 1 > U32_MAX /\ checks
      THEN [store |-> s1, panicked |-> TRUE]
      ELSE [store |-> set_count(s1, wrapping_add(len, 1)), panicked |-> FALSE]

\* fn push(item: &Self::Item); checks is the build's overflow-checks setting.
\* The result is the store the call leaves and whether it panicked.
push(s, v, checks) ==
  LET len == count(s)
      s1  == hashed_put(s, index_key(len), item_encode(v))
  IN  IF len + 1 > U32_MAX /\ checks
      THEN [store |-> s1, panicked |-> TRUE]
      ELSE [store |-> set_count(s1, wrapping_add(len, 1)), panicked |-> FALSE]

\* The for loop of set_items: k is the position in the input, n the counter.
RECURSIVE set_items_loop(_, _, _, _)
set_items_loop(s, seq, k, n) ==
  IF k > Len(seq) THEN [store |-> s, count |-> n, panicked |-> FALSE]
  ELSE LET s1   == hashed_put(s, index_key(n), item_encode(seq[k]))
           next == checked_add(n, 1)
       IN  IF next = {} THEN [store |-> s1, count |-> n, panicked |-> TRUE]
           ELSE set_items_loop(s1, seq, k + 1, CHOOSE x \in next : TRUE)

\* fn set_items(items: I)
set_items(s, seq) ==
  LET r == set_items_loop(s, seq, 1, 0)
  IN  IF r.panicked THEN [store |-> r.store, panicked |-> TRUE]
      ELSE [store |-> set_count(r.store, r.count), panicked |-> FALSE]

\* ------------------------------------------------------------------- state
VARIABLES
  store,            \* the key-value store
  overflow_checks,  \* whether `len + 1` panics on overflow in this build
  call,             \* the call that ran last, with its arguments and result
  aborted,          \* some call so far has panicked
  cleared,          \* indices cleared by a shrinking set_count, not written since
  proc,             \* the two execution contexts of the stepwise runs
  interleaved,      \* a context has stepped while the other was inside a call
  kv                \* the session, the puts and the last get of the hashed runs

vars ==
  <<store, overflow_checks, call, aborted, cleared, proc, interleaved, kv>>

\* No put or get made through hashed:: directly, in the first session.
NoKv == [session |-> 0, written |-> EmptyStore, op |-> "none", key |-> <<>>,
         got |-> <<>>]

\* The execution contexts, and one that is not inside a call.
Procs == {"a", "b"}
Idle == [op |-> "none", pc |-> "idle", index |-> 0, item |-> 0, n |-> 0,
         len |-> 0, hi |-> 0, i |-> 0, ok |-> FALSE, panicked |-> FALSE]

NoCall == [op |-> "none", index |-> 0, item |-> 0, items |-> <<>>,
           ret |-> <<>>, panicked |-> FALSE]

Init ==
  /\ store = EmptyStore
  /\ overflow_checks \in BOOLEAN
  /\ call = NoCall
  /\ aborted = FALSE
  /\ cleared = {}
  /\ proc = [p \in Procs |-> Idle]
  /\ interleaved = FALSE
  /\ kv = NoKv

\* Bookkeeping common to every call: c is the record of the call.
Record(c) ==
  /\ call' = c
  /\ aborted' = (aborted \/ c.panicked)
  /\ UNCHANGED <<overflow_checks, proc, interleaved, kv>>

CallPush ==
  \E v \in ItemValues :
    LET r   == push(store, v, overflow_checks)
        len == count(store)
    IN  /\ store' = r.store
        /\ Record([NoCall EXCEPT !.op = "push", !.item = v,
                                 !.panicked = r.panicked])
        /\ cleared' = cleared \ {len}

CallSetItems ==
  \E seq \in ItemSeqs :
    LET r == set_items(store, seq)
    IN  /\ store' = r.store
        /\ Record([NoCall EXCEPT !.op = "set_items", !.items = seq,
                                 !.panicked = r.panicked])
        /\ cleared' = cleared \ {i \in U32 : i < Len(seq)}

CallSetItem ==
  \E index \in U32, v \in ItemValues :
    /\ store' = set_item(store, index, v)
    /\ Record([NoCall EXCEPT !.op = "set_item", !.index = index, !.item = v])
    /\ cleared' = IF index < count(store) THEN cleared \ {index} ELSE cleared

CallClearItem ==
  \E index \in U32 :
    /\ store' = clear_item(store, index)
    /\ Record([NoCall EXCEPT !.op = "clear_item", !.index = index])
    /\ UNCHANGED cleared

CallSetCount ==
  \E n \in U32 :
    /\ store' = set_count(store, n)
    /\ Record([NoCall EXCEPT !.op = "set_count", !.index = n])
    /\ cleared' = cleared \cup {i \in U32 : n <= i /\ i < count(store)}

CallItem ==
  \E index \in U32 :
    /\ Record([NoCall EXCEPT !.op = "item", !.index = index,
                             !.ret = <<item(store, index)>>])
    /\ UNCHANGED <<store, cleared>>

CallItems ==
  /\ Record([NoCall EXCEPT !.op = "items", !.ret = items(store)])
  /\ UNCHANGED <<store, cleared>>

CallCount ==
  /\ Record([NoCall EXCEPT !.op = "count", !.ret = <<count(store)>>])
  /\ UNCHANGED <<store, cleared>>

Next ==
  \/ CallPush
  \/ CallSetItems
  \/ CallSetItem
  \/ CallClearItem
  \/ CallSetCount
  \/ CallItem
  \/ CallItems
  \/ CallCount

Spec == Init /\ [][Next]_vars

\* ----------------------------------------------------------- stepwise runs
\* The same code taken one store operation at a time, with two execution
\* contexts on one prefix: "a" runs a push or a set_item, "b" a set_count.
\* Nothing serialises them; each store read, put and kill is one step.

\* The collection holds what a set_items left in it.
InitRace ==
  /\ \E seq \in FittingSeqs : store = set_items(EmptyStore, seq).store
  /\ overflow_checks \in BOOLEAN
  /\ call = NoCall
  /\ aborted = FALSE
  /\ cleared = {}
  /\ proc = [p \in Procs |-> Idle]
  /\ interleaved = FALSE
  /\ kv = NoKv

Other(p) == CHOOSE q \in Procs : q # p
Busy(q) == proc[q].pc \notin {"idle", "done"}

\* One step of context p: its new record and the store it leaves.
Step(p, rec, s) ==
  /\ proc' = [proc EXCEPT ![p] = rec]
  /\ store' = s
  /\ interleaved' = (interleaved \/ Busy(Other(p)))
  /\ UNCHANGED <<overflow_checks, call, aborted, cleared, kv>>

\* push: let len = Self::count();
PushReadCount(p) ==
  /\ p = "a" /\ proc[p].pc = "idle"
  /\ \E v \in ItemValues :
       Step(p, [Idle EXCEPT !.op = "push", !.item = v, !.len = count(store),
                            !.pc = "push_put"], store)

\* push: hashed::put(&twox_128, &len.to_keyed_vec(Self::PREFIX), item);
PushPutItem(p) ==
  /\ proc[p].pc = "push_put"
  /\ Step(p, [proc[p] EXCEPT !.pc = "push_add"],
          hashed_put(store, index_key(proc[p].len), item_encode(proc[p].item)))

\* push: the argument len + 1 of Self::set_count(len + 1)
PushAddOne(p) ==
  /\ proc[p].pc = "push_add"
  /\ IF proc[p].len + 1 > U32_MAX /\ overflow_checks
     THEN Step(p, [proc[p] EXCEPT !.pc = "done", !.panicked = TRUE], store)
     ELSE Step(p, [proc[p] EXCEPT !.pc = "set_count",
                                  !.n = wrapping_add(proc[p].len, 1)], store)

\* A set_item that goes on to write whatever the count is.
SetItemCheckAlwaysPasses(p) ==
  /\ p = "a" /\ proc[p].pc = "idle"
  /\ \E index \in U32, v \in ItemValues :
       Step(p, [Idle EXCEPT !.op = "set_item", !.index = index, !.item = v,
                            !.ok = TRUE, !.pc = "set_item_put"], store)

\* set_item: if index < Self::count()
SetItemCheck(p) ==
  /\ p = "a" /\ proc[p].pc = "idle"
  /\ \E index \in U32, v \in ItemValues :
       Step(p, [Idle EXCEPT !.op = "set_item", !.index = index, !.item = v,
                            !.ok = (index < count(store)),
                            !.pc = "set_item_put"], store)

\* set_item: hashed::put(&twox_128, &index.to_keyed_vec(Self::PREFIX), item);
SetItemPut(p) ==
  /\ proc[p].pc = "set_item_put"
  /\ Step(p, [proc[p] EXCEPT !.pc = "done"],
          IF proc[p].ok
          THEN hashed_put(store, index_key(proc[p].index),
                          item_encode(proc[p].item))
          ELSE store)

\* A set_count that stores the new length as soon as it has read the old.
SetCountReadWritesLen(p) ==
  \E n \in U32 :
    /\ \/ p = "b" /\ proc[p].pc = "idle"
       \/ proc[p].pc = "set_count" /\ n = proc[p].n
    /\ Step(p, [proc[p] EXCEPT !.op = IF @ = "none" THEN "set_count" ELSE @,
                               !.n = n, !.hi = count(store), !.i = n,
                               !.pc = IF n < count(store) THEN "clear_check"
                                      ELSE "put_len"],
            hashed_put(store, len_key, u32_encode(n)))

\* set_count: the range count..Self::count() is built, reading the old count.
\* Context "b" is called with any n; a push arrives here with n = len + 1.
SetCountRead(p) ==
  \E n \in U32 :
    /\ \/ p = "b" /\ proc[p].pc = "idle"
       \/ proc[p].pc = "set_count" /\ n = proc[p].n
    /\ Step(p, [proc[p] EXCEPT !.op = IF @ = "none" THEN "set_count" ELSE @,
                               !.n = n, !.hi = count(store), !.i = n,
                               !.pc = IF n < count(store) THEN "clear_check"
                                      ELSE "put_len"],
            store)

\* clear_item(i) of the pass: if index < Self::count()
ClearItemCheck(p) ==
  /\ proc[p].pc = "clear_check"
  /\ Step(p, [proc[p] EXCEPT !.ok = (proc[p].i < count(store)),
                             !.pc = "clear_kill"], store)

\* A clear_item that moves on without deleting the key.
ClearItemKillSkips(p) ==
  /\ proc[p].pc = "clear_kill"
  /\ Step(p, [proc[p] EXCEPT !.i = @ + 1,
                             !.pc = IF proc[p].i + 1 < proc[p].hi
                                    THEN "clear_check" ELSE "put_len"],
          store)

\* clear_item(i) of the pass: hashed::kill(..), then the next index.
ClearItemKill(p) ==
  /\ proc[p].pc = "clear_kill"
  /\ Step(p, [proc[p] EXCEPT !.i = @ + 1,
                             !.pc = IF proc[p].i + 1 < proc[p].hi
                                    THEN "clear_check" ELSE "put_len"],
          IF proc[p].ok THEN hashed_kill(store, index_key(proc[p].i))
          ELSE store)

\* set_count: hashed::put(&twox_128, &b"len".to_keyed_vec(Self::PREFIX), &count);
SetCountPutLen(p) ==
  /\ proc[p].pc = "put_len"
  /\ Step(p, [proc[p] EXCEPT !.pc = "done"],
          hashed_put(store, len_key, u32_encode(proc[p].n)))

NextRace ==
  \E p \in Procs :
    \/ PushReadCount(p)
    \/ PushPutItem(p)
    \/ PushAddOne(p)
    \/ SetItemCheck(p)
    \/ SetItemPut(p)
    \/ SetCountRead(p)
    \/ ClearItemCheck(p)
    \/ ClearItemKill(p)
    \/ SetCountPutLen(p)

SpecRace == InitRace /\ [][NextRace]_vars

\* ------------------------------------------------------------ observations
\* No element slot is physically stored at an index >= count().
NoSlotBeyondCount(s) ==
  \A i \in U32 : hashed_exists(s, index_key(i)) => i < count(s)

\* What a caller can observe of the collection: count() and item(i) for all i.
Observable(s) == [count |-> count(s), item |-> [i \in U32 |-> item(s, i)]]

\* Pushing the elements of seq in order, starting at position k; stops at a panic.
RECURSIVE push_all(_, _, _)
push_all(s, seq, k) ==
  IF k > Len(seq) THEN [store |-> s, panicked |-> FALSE]
  ELSE LET r == push(s, seq[k], overflow_checks)
       IN  IF r.panicked THEN r ELSE push_all(r.store, seq, k + 1)

\* ------------------------------------------------------------------ claims

\* C1: from an empty store, after any sequence of calls none of which
\* aborted, no element slot is stored at an index >= count().
C1_NoSlotAtOrBeyondCount == ~aborted => NoSlotBeyondCount(store)

\* C2: every index cleared by a shrinking set_count reads as default(), and
\* keeps reading as default() until it is written, also after the count has
\* been grown back above it.
C2_ShrinkClears ==
  \A i \in cleared :
    /\ item(store, i) = Default
    /\ ~hashed_exists(store, index_key(i))

\* C2 witness: a set_count has grown the count back above an index that an
\* earlier shrink cleared and nothing has written since.
C2_Witness ==
  /\ call.op = "set_count"
  /\ \E i \in cleared : i < count(store) /\ item(store, i) = Default

\* C3: a push issued when count() is the largest counter value aborts, and
\* count() after the call is not smaller than before it.
C3_PushAtMaxAborts ==
  [][(call'.op = "push" /\ count(store) = U32_MAX)
       => (call'.panicked /\ count(store') >= count(store))]_vars

\* C4: set_items(seq) with a seq that fits the counter makes items() return
\* seq, and leaves the same observable collection as pushing seq onto an
\* empty collection, whatever the collection held before.  Stated for the
\* runs in which no call has aborted.
C4_SetItemsEqualsPushes ==
  [][(call'.op = "set_items" /\ Len(call'.items) <= U32_MAX /\ ~aborted')
       => /\ ~call'.panicked
          /\ items(store') = call'.items
          /\ Observable(store')
               = Observable(push_all(EmptyStore, call'.items, 1).store)]_vars

\* C5: n pushes from count C with C + n within the counter range end with
\* count() = C + n and the k-th pushed value at index C + k - 1.
C5_PushBookkeeping ==
  \A vs \in BoundedSeq(ItemValues, U32_MAX - count(store)) :
    LET r == push_all(store, vs, 1)
    IN  /\ ~r.panicked
        /\ count(r.store) = count(store) + Len(vs)
        /\ \A k \in 1..Len(vs) : item(r.store, count(store) + k - 1) = vs[k]

\* C5 witness: a push of a non-default value has just run on a non-empty
\* collection, and the value is at the index the count had.
C5_Witness ==
  /\ call.op = "push" /\ ~call.panicked
  /\ count(store) >= 2
  /\ call.item # Default
  /\ item(store, count(store) - 1) = call.item

\* C6: set_item and clear_item with index >= count() leave the store as it
\* is; after set_item(count(), v), item(count()) is default().  Stated for
\* the runs in which no call has aborted.
C6_OutOfBoundsNoOp ==
  [][(call'.op \in {"set_item", "clear_item"} /\ call'.index >= count(store)
        /\ ~aborted')
       => /\ store' = store
          /\ (call'.op = "set_item" /\ call'.index = count(store))
               => item(store', count(store')) = Default]_vars

\* C7: set_items with more elements than the counter can count aborts, and
\* the stored count is left as it was.
C7_SetItemsOverflowAborts ==
  [][(call'.op = "set_items" /\ Len(call'.items) > U32_MAX)
       => /\ call'.panicked
          /\ hashed_exists(store', len_key) = hashed_exists(store, len_key)
          /\ count(store') = count(store)]_vars

\* C7 witness: a set_items with an overlong input has run on a collection
\* that held items.
C7_Witness ==
  /\ call.op = "set_items" /\ Len(call.items) > U32_MAX
  /\ call.panicked
  /\ count(store) > 0

\* C8: with nothing written, count() is 0 and every item(i) is default();
\* item, items and count never abort and leave the store as it is.
C8_DefaultOnAbsence ==
  /\ [](store = EmptyStore =>
          /\ count(store) = 0
          /\ \A i \in U32 : item(store, i) = Default
          /\ items(store) = <<>>)
  /\ [][(call'.op \in {"item", "items", "count"})
          => /\ store' = store
             /\ ~call'.panicked
             /\ call'.op = "item" => call'.ret = <<item(store, call'.index)>>
             /\ call'.op = "count" => call'.ret = <<count(store)>>]_vars

\* C8 witness: item has been called on a store with nothing written.
C8_Witness ==
  /\ call.op = "item" /\ store = EmptyStore /\ call.ret = <<Default>>

\* C9: for every index i < count(), a second clear_item(i) changes nothing
\* of what the first one left: item(i) is default(), count() and all other
\* slots are as after the first call.
C9_ClearIdempotent ==
  \A i \in U32 :
    i < count(store) =>
      LET s1 == clear_item(store, i)
          s2 == clear_item(s1, i)
      IN  /\ s2 = s1
          /\ item(s2, i) = Default
          /\ count(s2) = count(s1)

\* C9 witness: clear_item has run on a valid index, so a second one runs on
\* the store the first one left.
C9_Witness ==
  /\ call.op = "clear_item" /\ call.index < count(store)
  /\ ~hashed_exists(store, index_key(call.index))
  /\ \E j \in U32 : hashed_exists(store, index_key(j))

\* C10: items() returns count() elements, the k-th being item(k), which is
\* default() for a slot that is not stored.
C10_ItemsIsItemByItem ==
  call.op = "items" =>
    /\ Len(call.ret) = count(store)
    /\ \A k \in U32 :
         k < count(store) =>
           /\ call.ret[k + 1] = item(store, k)
           /\ ~hashed_exists(store, index_key(k)) => call.ret[k + 1] = Default

\* C10 witness: items() has run on a full collection holding both a stored
\* non-default item and a slot that is not stored.
C10_Witness ==
  /\ call.op = "items" /\ count(store) = U32_MAX
  /\ \E k \in U32 : k < count(store) /\ ~hashed_exists(store, index_key(k))
  /\ \E k \in U32 : k < count(store) /\ call.ret[k + 1] # Default

\* The stored bytes under every element key, absent keys included.
Slots(s) ==
  [i \in U32 |-> IF hashed_exists(s, index_key(i)) THEN <<s[index_key(i)]>>
                 ELSE <<>>]
\* The stored bytes under the length key.
LenEntry(s) == IF hashed_exists(s, len_key) THEN <<s[len_key]>> ELSE <<>>

\* C11: set_item, clear_item, item, items and count leave count() and the
\* stored length entry as they are, for every index and every store.
C11_OnlyLengthOpsChangeCount ==
  [][(call'.op \in {"set_item", "clear_item", "item", "items", "count"})
       => /\ count(store') = count(store)
          /\ LenEntry(store') = LenEntry(store)]_vars

\* C11 witness: clear_item has deleted nothing but could have: it ran on the
\* last valid index of a collection, and the count is what it was.
C11_Witness ==
  /\ call.op = "clear_item"
  /\ call.index + 1 = count(store)
  /\ ~hashed_exists(store, index_key(call.index))

\* C15: after set_count(n), count() is n and item(i) is unchanged for every
\* i < min(n, old_count); when n >= old_count no element slot is written or
\* deleted.
C15_SetCountFrame ==
  [][(call'.op = "set_count")
       => LET n   == call'.index
              old == count(store)
          IN  /\ count(store') = n
              /\ \A i \in U32 :
                   (i < n /\ i < old) => item(store', i) = item(store, i)
              /\ n >= old => Slots(store') = Slots(store)]_vars

\* C15 witness: set_count has grown a collection that holds a stored
\* non-default item.
C15_Witness ==
  /\ call.op = "set_count"
  /\ \E i \in U32 : i + 1 < call.index /\ item(store, i) # Default
  /\ ~hashed_exists(store, index_key(call.index - 1))

\* C17: after set_item(index, v) with index < count(), item(index) is v,
\* and count() and every other item(j) are unchanged.
C17_SetItemInBounds ==
  [][(call'.op = "set_item" /\ call'.index < count(store))
       => /\ item(store', call'.index) = call'.item
          /\ count(store') = count(store)
          /\ \A j \in U32 :
               j # call'.index => Slots(store')[j] = Slots(store)[j]]_vars

\* C17 witness: set_item has replaced an item within bounds by a
\* non-default value.
C17_Witness ==
  /\ call.op = "set_item" /\ call.index < count(store)
  /\ call.item # Default
  /\ item(store, call.index) = call.item

\* Indices on both sides of every byte boundary of the encoding, and the
\* index whose encoding starts with the bytes of "len".
KeyIndices ==
  U32 \cup {0, 1, 255, 256, 257, 65535, 65536, 16777215, 16777216,
            7234924, 2147483647}

\* C18: under one prefix two different indices never derive the same key,
\* and the length key is the key of no index; a stored length entry is a
\* u32 and a stored element entry is an item.
C18_KeysDistinct ==
  /\ \A i, j \in KeyIndices : i # j => index_key(i) # index_key(j)
  /\ \A i \in KeyIndices : index_key(i) # len_key
  /\ \A i \in KeyIndices : u32_decode(u32_encode(i)) = i
  /\ hashed_exists(store, len_key) => Len(store[len_key]) = 4
  /\ \A i \in U32 :
       hashed_exists(store, index_key(i)) => Len(store[index_key(i)]) = 1

\* C18 witness: the length and an element are both stored, and the element
\* has just been written.
C18_Witness ==
  /\ call.op = "set_item" /\ call.index < count(store)
  /\ hashed_exists(store, len_key)
  /\ hashed_exists(store, index_key(call.index))

\* C19: a push or set_items that aborts on counter overflow leaves the store
\* exactly as it was before the call.
C19_AbortLeavesStore ==
  [][(call'.op \in {"push", "set_items"} /\ call'.panicked)
       => store' = store]_vars

\* ------------------------------------------------------------- hashed runs
\* The tests of the module: values of several types put and got under a key
\* through hashed:: directly, in successive with_externalities sessions over
\* one TestExternalities.

\* Largest number of sessions after the first.
MaxSession == 2

\* A typed value: a u32 or a bool in n, a Vec<u8> in bytes.
Val(type, n, bytes) == [t |-> type, n |-> n, bytes |-> bytes]
TestValues ==
  {Val("u32", 69, <<>>), Val("u32", 0, <<>>),
   Val("bool", 1, <<>>), Val("bool", 0, <<>>),
   Val("vec", 0, <<>>), Val("vec", 0, <<72, 105>>)}
\* b":test", and a key that is a prefix of it.
TestKeys == {<<58, 116, 101, 115, 116>>, <<58, 116>>}

\* Encode: a u32 is four little-endian bytes, a bool one byte, a Vec<u8> its
\* compact length (b"\x2cHello world": 4 * 11) and then its bytes.
val_encode(val) ==
  CASE val.t = "u32"  -> u32_encode(val.n)
    [] val.t = "bool" -> <<val.n>>
    [] val.t = "vec"  -> <<4 * Len(val.bytes)>> \o val.bytes
\* Decode as the type asked for.
val_decode(type, b) ==
  CASE type = "u32"  -> Val("u32", u32_decode(b), <<>>)
    [] type = "bool" -> Val("bool", b[1], <<>>)
    [] type = "vec"  -> Val("vec", 0, SubSeq(b, 2, 1 + (b[1] \div 4)))

InitHashed ==
  /\ store = EmptyStore
  /\ overflow_checks \in BOOLEAN
  /\ call = NoCall
  /\ aborted = FALSE
  /\ cleared = {}
  /\ proc = [p \in Procs |-> Idle]
  /\ interleaved = FALSE
  /\ kv = NoKv

\* hashed::put(&twox_128, key, &x)
HashedPut ==
  \E key \in TestKeys, val \in TestValues :
    /\ store' = hashed_put(store, key, val_encode(val))
    /\ kv' = [kv EXCEPT
                !.op = "put", !.key = key, !.got = <<>>,
                !.written =
                  [k \in DOMAIN @ \cup {key} |->
                     IF k = key
                     THEN [value |-> val, session |-> kv.session,
                           puts |-> IF key \in DOMAIN @ THEN 2 ELSE 1]
                     ELSE @[k]]]
    /\ UNCHANGED <<overflow_checks, call, aborted, cleared, proc, interleaved>>

\* let y: T = hashed::get(&twox_128, key).unwrap(), T the type last put there
HashedGet ==
  \E key \in DOMAIN store :
    /\ kv' = [kv EXCEPT
                !.op = "get", !.key = key,
                !.got = <<val_decode(kv.written[key].value.t,
                                     hashed_get(store, key)[1])>>]
    /\ UNCHANGED <<store, overflow_checks, call, aborted, cleared, proc,
                   interleaved>>

\* The closure ends and with_externalities(&mut t, ..) is entered again.
NextSession ==
  /\ kv.session < MaxSession
  /\ kv' = [kv EXCEPT !.session = @ + 1, !.op = "session", !.got = <<>>]
  /\ UNCHANGED <<store, overflow_checks, call, aborted, cleared, proc,
                 interleaved>>

NextHashed ==
  \/ HashedPut
  \/ HashedGet
  \/ NextSession

SpecHashed == InitHashed /\ [][NextHashed]_vars

\* C14: a get returns the value last put under its key, also after a second
\* put under that key and in a later session over the same store.
C14_PutGetRoundTrip ==
  /\ DOMAIN store = DOMAIN kv.written
  /\ kv.op = "get" => kv.got = <<kv.written[kv.key].value>>

\* C14 witness: a get in a later session has returned the value of the
\* second put under its key, a non-empty Vec<u8>.
C14_Witness ==
  /\ kv.op = "get"
  /\ kv.written[kv.key].puts = 2
  /\ kv.written[kv.key].session < kv.session
  /\ kv.got = <<Val("vec", 0, <<72, 105>>)>>

\* ------------------------------------------------- claims on stepwise runs
BothDone == \A p \in Procs : proc[p].pc = "done"

\* The pushed value is not stored at the index the push assigned to it,
\* although that index is below count().
PushedValueLost ==
  /\ proc["a"].op = "push" /\ ~proc["a"].panicked
  /\ proc["a"].len < count(store)
  /\ \/ ~hashed_exists(store, index_key(proc["a"].len))
     \/ item(store, proc["a"].len) # proc["a"].item

\* The length and the stored slots disagree.
Mismatch == ~NoSlotBeyondCount(store) \/ PushedValueLost

\* C12: a push whose counter does not overflow and a set_count, once both
\* have finished, leave the length and the slots in disagreement only when
\* their store operations were interleaved; interleaved, they can.
C12_PushSetCountRace ==
  (/\ BothDone
   /\ proc["a"].op = "push" /\ proc["a"].len < U32_MAX
   /\ Mismatch)
    => interleaved

\* C12 witness: a push and a set_count have both finished, the push did not
\* overflow, and a slot is stored at an index >= count().
C12_Witness ==
  /\ BothDone
  /\ proc["a"].op = "push" /\ proc["a"].len < U32_MAX
  /\ ~NoSlotBeyondCount(store)
  /\ interleaved

\* C13: a set_item and a set_count, once both have finished, leave a slot
\* stored at an index >= count() only when the set_count ran between the
\* check and the write of the set_item; then they can.
C13_SetItemShrinkRace ==
  (/\ BothDone
   /\ proc["a"].op = "set_item"
   /\ ~NoSlotBeyondCount(store))
    => /\ interleaved
       /\ proc["a"].ok
       /\ proc["a"].index >= count(store)
       /\ hashed_exists(store, index_key(proc["a"].index))

\* C13 witness: set_item passed its check, a shrinking set_count ran, and
\* the slot set_item then wrote is stored at an index >= count().
C13_Witness ==
  /\ BothDone
  /\ proc["a"].op = "set_item" /\ proc["a"].ok
  /\ proc["b"].n < proc["b"].hi
  /\ proc["a"].index >= count(store)
  /\ hashed_exists(store, index_key(proc["a"].index))

\* C16: in a set_count that no other context interleaves with, the stored
\* length is still the old count at every clear_item of the pass, so each
\* check passes, and when the length entry is about to be written every
\* slot in [n, old_count) has been deleted.
C16_SetCountOrder ==
  \A p \in Procs :
    (proc[p].pc \in {"clear_check", "clear_kill", "put_len"} /\ ~interleaved)
      => /\ count(store) = proc[p].hi
         /\ proc[p].pc = "clear_kill" => proc[p].ok
         /\ proc[p].pc \in {"clear_check", "clear_kill"}
              => /\ proc[p].n <= proc[p].i /\ proc[p].i < proc[p].hi
                 /\ \A j \in U32 :
                      (proc[p].n <= j /\ j < proc[p].i)
                        => ~hashed_exists(store, index_key(j))
         /\ proc[p].pc = "put_len"
              => \A j \in U32 :
                   (proc[p].n <= j /\ j < proc[p].hi)
                     => ~hashed_exists(store, index_key(j))

\* C16 witness: a set_count called on its own has cleared two slots and is
\* about to write the length, which is still the old count.
C16_Witness ==
  /\ proc["b"].op = "set_count" /\ proc["b"].pc = "put_len"
  /\ proc["b"].n + 2 <= proc["b"].hi
  /\ count(store) = proc["b"].hi
  /\ ~interleaved

====
